---- MODULE Spec2Model ----
(***************************************************************************)
(* Model of bids/layout/index.py: index_layout (the recursive directory   *)
(* walk index_dir with _index_file) followed by _index_metadata (sidecar  *)
(* resolution).  Paths are sequences of names from the filesystem root.   *)
(* A value is a pair <<type, text>>, so that str() is not the identity.   *)
(***************************************************************************)
EXTENDS Integers, Sequences, FiniteSets, TLC

\* ------------------------------------------------------------ bounds
\* Number of subjects: data files sub-1 .. sub-NSub in directory a.
NSub == 2
\* Sidecar payload values range over 1 .. MaxVal.
MaxVal == 2

\* ------------------------------------------------------ model values
None == <<"None", "">>

IntVal(n) == <<"int", ToString(n)>>

\* str(val), index.py line 58: the text of the value, typed str.
Str(v) == <<"str", v[2]>>

JsonExt == <<"str", "json">>

\* ------------------------------------------------------- the dataset
\* layout.root
Root == <<"ds">>

\* layout.config_filename
ConfigFilename == "layout_config.json"

DirA == Root \o <<"a">>
DirB == Root \o <<"b">>
DirAC == Root \o <<"a", "c">>
DirDeriv == Root \o <<"derivatives">>
DirDerivOld == Root \o <<"derivatives_old">>

AllDirs == {Root, DirA, DirB, DirAC, DirDeriv, DirDerivOld}

\* os.path.dirname on a path; the filesystem root is its own parent.
Dirname(p) == IF p = <<>> THEN <<>> ELSE SubSeq(p, 1, Len(p) - 1)

\* a is d or an ancestor directory of d.
IsPrefix(a, d) == Len(a) <= Len(d) /\ SubSeq(d, 1, Len(a)) = a

Reverse(s) == [i \in 1..Len(s) |-> s[Len(s) + 1 - i]]

\* What a file name encodes: the text each entity pattern would capture.
Parts(sub, extra, suffix, ext) ==
    (IF sub = "" THEN <<>> ELSE <<<<"subject", sub>>>>)
    \o (IF extra = "" THEN <<>> ELSE <<<<extra, "1">>>>)
    \o <<<<"suffix", suffix>>, <<"extension", ext>>>>

\* A file on disk: its directory, its name and what the name encodes (a
\* sequence of <<pattern, text>> pairs).
MkFile(d, n, parts) == [dirname |-> d, name |-> n, path |-> Append(d, n), parts |-> parts]

SubFile(d, s) ==
    MkFile(d, "sub-" \o ToString(s) \o "_T.nii", Parts(ToString(s), "", "T", "nii"))

RootSidecar == MkFile(Root, "T.json", Parts("", "", "T", "json"))
Readme == MkFile(Root, "README", <<>>)
ASidecar == MkFile(DirA, "T.json", Parts("", "", "T", "json"))
ASub1Sidecar == MkFile(DirA, "sub-1_T.json", Parts("1", "", "T", "json"))
ACFile == MkFile(DirAC, "sub-1_bar-1_T.nii", Parts("1", "bar", "T", "nii"))
BFile == MkFile(DirB, "sub-2_foo-1_T.nii", Parts("2", "foo", "T", "nii"))
DerivFile == MkFile(DirDeriv, "sub-1_T.nii", Parts("1", "", "T", "nii"))

\* path.endswith('.json'), index.py line 169
EndsWithJson(bf) == bf.name \in {"T.json", "sub-1_T.json", ConfigFilename}

\* Directory listings in one fixed order; fs.order may reverse them.
BaseFiles(d) ==
    CASE d = Root -> <<RootSidecar, Readme>>
      [] d = DirA -> <<ASidecar, ASub1Sidecar>> \o [s \in 1..NSub |-> SubFile(DirA, s)]
      [] d = DirAC -> <<ACFile>>
      [] d = DirB -> <<BFile>>
      [] d = DirDeriv -> <<DerivFile>>
      [] OTHER -> <<>>

BaseDirs(d) ==
    CASE d = Root -> <<"derivatives", "a", "derivatives_old", "b">>
      [] d = DirA -> <<"c">>
      [] OTHER -> <<>>

AllFiles == UNION {{BaseFiles(d)[i] : i \in 1..Len(BaseFiles(d))} : d \in AllDirs}

\* ------------------------------------------------- entities, configs
Entity(name, dtype, mandatory, is_metadata, origin) ==
    [name |-> name, pattern |-> name, dtype |-> dtype, mandatory |-> mandatory,
     is_metadata |-> is_metadata, origin |-> origin]

\* The root configuration (layout.config): subject, suffix, extension.
RootConfig(mand) ==
    [name |-> "bids",
     entities |-> <<Entity("subject", "str", "subject" \in mand, FALSE, "bids"),
                    Entity("suffix", "str", FALSE, FALSE, "bids"),
                    Entity("extension", "str", FALSE, FALSE, "bids")>>]

\* A directory's config file declares one more entity.
DirConfig(d, ename, mand) ==
    [name |-> ToString(d),
     entities |-> <<Entity(ename, "int", ename \in mand, FALSE, ToString(d))>>]

\* ------------------------------------------------------------- state
VARIABLES
    args,          \* index_layout's arguments: force_index, index_metadata
    layout,        \* layout: config, force_index patterns, validators
    fs,            \* the directory tree: listing order, config files
    pc,            \* "start", "walk", "metadata", "resolve", "done"
    stack,         \* the active index_dir frames, innermost last
    visits,        \* history: every index_dir call, with its arguments
    files,         \* BIDSFile records added to the session
    tags,          \* Tag records added to the session
    entities,      \* Entity records known to the session
    associations,  \* FileAssociation records added to the session
    all_entities,  \* _index_metadata's all_entities: name -> Entity
    file_data,     \* _index_metadata's file_data entries
    todo           \* _index_metadata's filenames still to process

vars == <<args, layout, fs, pc, stack, visits, files, tags, entities,
          associations, all_entities, file_data, todo>>

\* ----------------------------------------------- external predicates
\* layout._validate_file(abs_fn)
ValidateFile(bf) == bf.path \notin layout.invalid_files

\* layout._validate_dir(d)
ValidateDir(d) == d \notin layout.invalid_dirs

\* check_path_matches_patterns(d, layout.force_index): a pattern list is
\* modelled by the set of directories it matches.
CheckPathMatchesPatterns(d, patterns) == d \in patterns

\* e.match_file(bf): the typed value the entity's pattern captures, or None.
MatchFile(e, bf) ==
    IF \E i \in 1..Len(bf.parts) : bf.parts[i][1] = e.pattern
    THEN LET i == CHOOSE i \in 1..Len(bf.parts) : bf.parts[i][1] = e.pattern
         IN <<e.dtype, bf.parts[i][2]>>
    ELSE None

\* os.path.exists(config_file)
ConfigExists(d) == d \in DOMAIN fs.configs

\* Config.load(config_file, session=session)
ConfigLoad(d) == DirConfig(d, fs.configs[d], layout.mandatory)

\* os.walk(path): the first (and only used) level of the walk.
Ordered(s) == IF fs.order = "rev" THEN Reverse(s) ELSE s

WalkFilenames(d) ==
    Ordered(BaseFiles(d)
            \o (IF ConfigExists(d) THEN <<MkFile(d, ConfigFilename, <<>>)>> ELSE <<>>))

WalkDirnames(d) == Ordered(BaseDirs(d))

\* ------------------------------------------------------ _index_file
\* dict.update, key by key: a known name keeps its position and takes the
\* new value, a new name is appended.
RECURSIVE DictUpdate(_, _)
DictUpdate(d, es) ==
    IF es = <<>> THEN d
    ELSE LET e == Head(es)
             d2 == IF \E i \in 1..Len(d) : d[i].name = e.name
                   THEN [i \in 1..Len(d) |-> IF d[i].name = e.name THEN e ELSE d[i]]
                   ELSE Append(d, e)
         IN DictUpdate(d2, Tail(es))

\* config_entities: the entities of every config of the chain, merged.
RECURSIVE ConfigEntities(_)
ConfigEntities(config) ==
    IF config = <<>> THEN <<>>
    ELSE DictUpdate(ConfigEntities(SubSeq(config, 1, Len(config) - 1)),
                    config[Len(config)].entities)

\* The loop without its break: every matching entity is recorded.
RECURSIVE ExtractNoBreak(_, _)
ExtractNoBreak(bf, ents) ==
    IF ents = <<>> THEN <<>>
    ELSE LET e == Head(ents)
             m == MatchFile(e, bf)
         IN (IF m # None THEN <<<<e, m>>>> ELSE <<>>) \o ExtractNoBreak(bf, Tail(ents))

\* Lines 47-53, the loop over entities.values(): a mandatory entity that
\* does not match ends the loop; a match is recorded.
RECURSIVE ExtractEntities(_, _)
ExtractEntities(bf, ents) ==
    IF ents = <<>> THEN <<>>
    ELSE LET e == Head(ents)
             m == MatchFile(e, bf)
         IN IF m = None /\ e.mandatory THEN <<>>
            ELSE (IF m # None THEN <<<<e, m>>>> ELSE <<>>)
                 \o ExtractEntities(bf, Tail(ents))

\* Tag(bf, ent, str(val), ent._dtype)
FileTag(bf, e, m) == [file |-> bf.path, entity |-> e, value |-> Str(m), dtype |-> e.dtype]

\* The guard of _index_file: `force_index` is index_layout's argument (the
\* enclosing scope of _index_file), not index_dir's parameter.
SkipFile(bf, frame) == ~args.force_index /\ ~ValidateFile(bf)

\* ---------------------------------------------------------- index_dir
\* d.startswith(os.path.join(layout.root, 'derivatives')): a prefix test on
\* the path text, so a name that starts with "derivatives" passes it too.
NameStartsWithDerivatives(n) == n \in {"derivatives", "derivatives_old"}

\* No directory is reserved.
NoDerivatives(d) == FALSE

IsDerivatives(d) ==
    /\ Len(d) > Len(Root)
    /\ SubSeq(d, 1, Len(Root)) = Root
    /\ NameStartsWithDerivatives(d[Len(Root) + 1])

\* One chain shared by every call: each config file loaded so far stays in it.
ChainShared(config, path) ==
    LET seen == SelectSeq(visits, LAMBDA v : ConfigExists(v.path))
    IN layout.config \o [i \in 1..Len(seen) |-> ConfigLoad(seen[i].path)]
       \o (IF ConfigExists(path) THEN <<ConfigLoad(path)>> ELSE <<>>)

\* Lines 66-73: the copy of the chain, plus the directory's own config.
ConfigChain(config, path) ==
    IF ConfigExists(path) THEN Append(config, ConfigLoad(path)) ELSE config

\* The frame of a call index_dir(path, config, parent, force_index).
Frame(path, config, force) ==
    LET chain == ConfigChain(config, path)
    IN [path |-> path,
        config |-> chain,
        force_index |-> force,
        config_entities |-> ConfigEntities(chain),
        filenames |-> SelectSeq(WalkFilenames(path), LAMBDA f : f.name # ConfigFilename),
        dirnames |-> WalkDirnames(path),
        at |-> "files"]

Visit(path, force, frame) ==
    [path |-> path, force_index |-> force,
     entity_names |-> {frame.config_entities[i].name : i \in 1..Len(frame.config_entities)},
     config_entities |-> frame.config_entities]

Top == stack[Len(stack)]

SetTop(f) == [stack EXCEPT ![Len(stack)] = f]

\* Entering index_dir: the frame is built, a config file's entities are
\* registered by Config.load.
Enter(stk, path, config, force) ==
    LET frame == Frame(path, config, force)
    IN /\ stack' = Append(stk, frame)
       /\ visits' = Append(visits, Visit(path, force, frame))
       /\ entities' = IF ConfigExists(path)
                      THEN entities \o ConfigLoad(path).entities
                      ELSE entities

MdUnchanged == UNCHANGED <<all_entities, file_data, todo, associations>>

\* index_layout, line 127: index_dir(root_path, config, None, force_index)
IndexLayout ==
    /\ pc = "start"
    /\ pc' = "walk"
    /\ Enter(<<>>, Root, layout.config, args.force_index)
    /\ UNCHANGED <<args, layout, fs, files, tags>>
    /\ MdUnchanged

\* Lines 88-92: one iteration of the loop over filenames.
IndexFile ==
    /\ pc = "walk" /\ Top.at = "files" /\ Top.filenames # <<>>
    /\ LET bf == Head(Top.filenames)
           match_vals == ExtractEntities(bf, Top.config_entities)
       IN /\ stack' = SetTop([Top EXCEPT !.filenames = Tail(@)])
          /\ IF SkipFile(bf, Top)
             THEN UNCHANGED <<files, tags>>
             ELSE /\ files' = Append(files, bf)
                  /\ tags' = tags \o [i \in 1..Len(match_vals) |->
                                        FileTag(bf, match_vals[i][1], match_vals[i][2])]
    /\ UNCHANGED <<args, layout, fs, pc, visits, entities>>
    /\ MdUnchanged

\* Line 94: session.commit() once the directory's files are done.
Commit ==
    /\ pc = "walk" /\ Top.at = "files" /\ Top.filenames = <<>>
    /\ stack' = SetTop([Top EXCEPT !.at = "dirs"])
    /\ UNCHANGED <<args, layout, fs, pc, visits, files, tags, entities>>
    /\ MdUnchanged

NextDir == Append(Top.path, Head(Top.dirnames))

\* Lines 103-104: a derivatives directory is passed over.
SkipDerivatives ==
    /\ pc = "walk" /\ Top.at = "dirs" /\ Top.dirnames # <<>>
    /\ IsDerivatives(NextDir)
    /\ stack' = SetTop([Top EXCEPT !.dirnames = Tail(@)])
    /\ UNCHANGED <<args, layout, fs, pc, visits, files, tags, entities>>
    /\ MdUnchanged

\* Lines 113-120: the local force_index after the pattern test; it stays
\* set for the rest of the loop over dirnames.
ForceAfter(frame, d) ==
    IF CheckPathMatchesPatterns(d, layout.force_index) THEN TRUE ELSE frame.force_index

\* Lines 116-120: an invalid directory is passed over unless force-index
\* patterns are configured.
SkipInvalidDir ==
    /\ pc = "walk" /\ Top.at = "dirs" /\ Top.dirnames # <<>>
    /\ ~IsDerivatives(NextDir)
    /\ ~CheckPathMatchesPatterns(NextDir, layout.force_index)
    /\ ~ValidateDir(NextDir) /\ layout.force_index = {}
    /\ stack' = SetTop([Top EXCEPT !.dirnames = Tail(@)])
    /\ UNCHANGED <<args, layout, fs, pc, visits, files, tags, entities>>
    /\ MdUnchanged

\* Line 122: index_dir(d, list(config), path, force_index)
Recurse ==
    /\ pc = "walk" /\ Top.at = "dirs" /\ Top.dirnames # <<>>
    /\ ~IsDerivatives(NextDir)
    /\ ~(/\ ~CheckPathMatchesPatterns(NextDir, layout.force_index)
          /\ ~ValidateDir(NextDir)
          /\ layout.force_index = {})
    /\ LET force == ForceAfter(Top, NextDir)
           caller == [Top EXCEPT !.dirnames = Tail(@), !.force_index = force]
       IN Enter(SetTop(caller), NextDir, caller.config, force)
    /\ UNCHANGED <<args, layout, fs, pc, files, tags>>
    /\ MdUnchanged

\* Line 125: the call returns once its subdirectories are done; the
\* outermost return ends the walk (lines 129-130).
Return ==
    /\ pc = "walk" /\ Top.at = "dirs" /\ Top.dirnames = <<>>
    /\ stack' = SubSeq(stack, 1, Len(stack) - 1)
    /\ pc' = IF Len(stack) > 1 THEN "walk"
             ELSE IF args.index_metadata THEN "metadata" ELSE "done"
    /\ UNCHANGED <<args, layout, fs, visits, files, tags, entities>>
    /\ MdUnchanged

\* --------------------------------------------------- _index_metadata
\* layout.get(absolute_paths=True): every indexed file, in store order.
LayoutGet == files

\* bf.entities: entity name -> value, from the file's tags (a sequence of
\* <<name, value>> pairs, one per name).
RECURSIVE PairUpdate(_, _)
PairUpdate(d, kvs) ==
    IF kvs = <<>> THEN d
    ELSE LET kv == Head(kvs)
             d2 == IF \E i \in 1..Len(d) : d[i][1] = kv[1]
                   THEN [i \in 1..Len(d) |-> IF d[i][1] = kv[1] THEN kv ELSE d[i]]
                   ELSE Append(d, kv)
         IN PairUpdate(d2, Tail(kvs))

Keys(d) == {d[i][1] : i \in 1..Len(d)}

Get(d, k) == LET i == CHOOSE i \in 1..Len(d) : d[i][1] = k IN d[i][2]

GetOrNone(d, k) == IF k \in Keys(d) THEN Get(d, k) ELSE None

BfEntities(bf) ==
    LET mine == SelectSeq(tags, LAMBDA t : t.file = bf.path)
    IN PairUpdate(<<>>, [i \in 1..Len(mine) |-> <<mine[i].entity.name, mine[i].value>>])

\* file_ents: bf.entities without suffix and extension (the two pops).
FileEnts(ents) == SelectSeq(ents, LAMBDA kv : kv[1] \notin {"suffix", "extension"})

\* "{}/{}".format(ext, suffix)
Key(ext, suffix) == <<ext[2], suffix[2]>>

\* json.load(handle): what the sidecars hold when the pass reads them.
Payload0 == <<<<"ka", IntVal(1)>>, <<"kb", IntVal(1)>>>>

Payloads1 == {<<<<"kb", IntVal(v)>>>> : v \in 1..MaxVal} \cup {<<<<"foo", IntVal(1)>>>>}

Payloads2 == {<<<<"kb", IntVal(v)>>>> : v \in 1..MaxVal} \cup {<<<<"subject", IntVal(1)>>>>}

PayloadChoices ==
    {[p \in {RootSidecar.path, ASidecar.path, ASub1Sidecar.path} |->
        IF p = RootSidecar.path THEN Payload0
        ELSE IF p = ASidecar.path THEN p1 ELSE p2] : p1 \in Payloads1, p2 \in Payloads2}

\* Lines 149-166: the file_data entry of one file, if it has a suffix and
\* an extension; the payload is None for a file that is not JSON.
HasKey(bf) ==
    LET ents == BfEntities(bf)
    IN GetOrNone(ents, "suffix") # None /\ GetOrNone(ents, "extension") # None

FileDataEntry(bf, json) ==
    LET ents == BfEntities(bf)
        ext == Get(ents, "extension")
    IN [key |-> Key(ext, Get(ents, "suffix")),
        dirname |-> bf.dirname,
        ents |-> FileEnts(ents),
        payload |-> IF ext = JsonExt THEN json[bf.path] ELSE <<>>,
        path |-> bf.path]

\* Lines 136-169: all_entities from the root configs, file_data from every
\* indexed file, and the list of files that are not JSON.
LoadFileData ==
    /\ pc = "metadata"
    /\ \E json \in PayloadChoices :
          LET keyed == SelectSeq(LayoutGet, HasKey)
          IN file_data' = [i \in 1..Len(keyed) |-> FileDataEntry(keyed[i], json)]
    /\ all_entities' = ConfigEntities(layout.config)
    /\ todo' = SelectSeq(LayoutGet, LAMBDA bf : ~EndsWithJson(bf))
    /\ pc' = "resolve"
    /\ UNCHANGED <<args, layout, fs, stack, visits, files, tags, entities, associations>>

\* The directories the while loop visits: dirname, its parent, ..., up to
\* the filesystem root.
RECURSIVE Ancestry(_)
Ancestry(dirname) ==
    IF Dirname(dirname) = dirname THEN <<dirname>>
    ELSE <<dirname>> \o Ancestry(Dirname(dirname))

\* file_data.get(key, {}).get(dirname, [])
Lookup(key, dirname) ==
    SelectSeq(file_data, LAMBDA x : x.key = key /\ x.dirname = dirname)

\* Lines 198-203: the candidate's entities are all entities of the file,
\* with the same values.
Matches(ents, file_ents) ==
    /\ Keys(ents) \subseteq Keys(file_ents)
    /\ \A name \in Keys(ents) : Get(ents, name) = Get(file_ents, name)

\* Lines 194-219: the matching entries under `key`, nearest directory first.
RECURSIVE Collect(_, _, _)
Collect(key, file_ents, dirs) ==
    IF dirs = <<>> THEN <<>>
    ELSE SelectSeq(Lookup(key, Head(dirs)), LAMBDA x : Matches(x.ents, file_ents))
         \o Collect(key, file_ents, Tail(dirs))

\* Lines 233-235: file_md, updated from the farthest payload to the nearest.
RECURSIVE MergeInOrder(_)
MergeInOrder(payloads) ==
    IF payloads = <<>> THEN <<>>
    ELSE PairUpdate(MergeInOrder(SubSeq(payloads, 1, Len(payloads) - 1)),
                    payloads[Len(payloads)].payload)

\* The payloads applied in visit order: the farthest is applied last.
MergeNearestFirst(payloads) == MergeInOrder(payloads)

Consolidate(payloads) == MergeInOrder(Reverse(payloads))

Assoc(src, dst, kind) == [src |-> src, dst |-> dst, kind |-> kind]

\* The chain with src and dst exchanged.
RECURSIVE ChainReversed(_)
ChainReversed(paths) ==
    IF Len(paths) < 2 THEN <<>>
    ELSE <<Assoc(paths[2], paths[1], "Child"), Assoc(paths[1], paths[2], "Parent")>>
         \o ChainReversed(Tail(paths))

\* Lines 238-257: Child and Parent records for consecutive paths of a chain.
RECURSIVE Chain(_)
Chain(paths) ==
    IF Len(paths) < 2 THEN <<>>
    ELSE <<Assoc(paths[1], paths[2], "Child"), Assoc(paths[2], paths[1], "Parent")>>
         \o Chain(Tail(paths))

PathsOf(entries) == [i \in 1..Len(entries) |-> entries[i].path]

\* Lines 260-263: all_entities after the keys of file_md were looked up; a
\* key that is not in all_entities gets a new Entity.
RECURSIVE Register(_, _)
Register(known, file_md) ==
    IF file_md = <<>> THEN known
    ELSE LET k == Head(file_md)[1]
         IN Register(IF \E i \in 1..Len(known) : known[i].name = k
                     THEN known
                     ELSE Append(known, Entity(k, "str", FALSE, TRUE, "metadata")),
                     Tail(file_md))

EntityNamed(known, k) == known[CHOOSE i \in 1..Len(known) : known[i].name = k]

\* Tag(bf, all_entities[md_key], md_val)
MetadataTag(bf, e, val) == [file |-> bf.path, entity |-> e, value |-> val, dtype |-> "None"]

\* Lines 170-268: the loop body for one file that is not JSON.
IndexMetadataFile ==
    /\ pc = "resolve" /\ todo # <<>>
    /\ LET bf == Head(todo)
           ents == BfEntities(bf)
           file_ents == FileEnts(ents)
           suffix == GetOrNone(ents, "suffix")
           ext == GetOrNone(ents, "extension")
           dirs == Ancestry(bf.dirname)
           payloads == Collect(<<"json", suffix[2]>>, file_ents, dirs)
           ancestors == Collect(Key(ext, suffix), file_ents, dirs)
           js_file == payloads[Len(payloads)].path
           file_md == Consolidate(payloads)
           known == Register(all_entities, file_md)
       IN /\ todo' = Tail(todo)
          /\ IF suffix = None \/ ext = None \/ payloads = <<>>
             THEN UNCHANGED <<associations, all_entities, entities, tags>>
             ELSE /\ associations' =
                        associations
                        \o <<Assoc(js_file, bf.path, "Metadata"),
                             Assoc(bf.path, js_file, "Metadata")>>
                        \o Chain(PathsOf(payloads))
                        \o Chain(PathsOf(ancestors))
                  /\ all_entities' = known
                  /\ entities' = entities \o SubSeq(known, Len(all_entities) + 1, Len(known))
                  /\ tags' = tags \o [i \in 1..Len(file_md) |->
                                        MetadataTag(bf, EntityNamed(known, file_md[i][1]),
                                                    file_md[i][2])]
    /\ UNCHANGED <<args, layout, fs, pc, stack, visits, files, file_data>>

\* Line 270: the last commit ends the pass.
FinalCommit ==
    /\ pc = "resolve" /\ todo = <<>>
    /\ pc' = "done"
    /\ UNCHANGED <<args, layout, fs, stack, visits, files, tags, entities,
                   associations, all_entities, file_data, todo>>

\* ------------------------------------------------------ specification
ForceIndexChoices == {{}, {DirA}, {DirB, DirDeriv}, {Root \o <<"nowhere">>}}

InvalidDirChoices == {{}, {DirB, DirAC, DirDeriv}}

InvalidFileChoices == {{}, {Readme.path, ASub1Sidecar.path, BFile.path, SubFile(DirA, 1).path}}

ConfigChoices == {DirA :> "foo", DirB :> "foo", (DirA :> "foo") @@ (DirAC :> "bar")}

MandatoryChoices == {{}, {"foo"}, {"subject", "foo"}}

Init ==
    /\ args \in [force_index : BOOLEAN, index_metadata : BOOLEAN]
    /\ \E fi \in ForceIndexChoices, idirs \in InvalidDirChoices,
          ifiles \in InvalidFileChoices, mand \in MandatoryChoices :
          layout = [root |-> Root, config |-> <<RootConfig(mand)>>, force_index |-> fi,
                    invalid_dirs |-> idirs, invalid_files |-> ifiles, mandatory |-> mand]
    /\ fs \in [order : {"fwd", "rev"}, configs : ConfigChoices]
    /\ pc = "start"
    /\ stack = <<>>
    /\ visits = <<>>
    /\ files = <<>>
    /\ tags = <<>>
    /\ entities = RootConfig(layout.mandatory).entities
    /\ associations = <<>>
    /\ all_entities = <<>>
    /\ file_data = <<>>
    /\ todo = <<>>

Next ==
    \/ IndexLayout
    \/ IndexFile
    \/ Commit
    \/ SkipDerivatives
    \/ SkipInvalidDir
    \/ Recurse
    \/ Return
    \/ LoadFileData
    \/ IndexMetadataFile
    \/ FinalCommit

Spec == Init /\ [][Next]_vars

\* ------------------------------------------------------------- claims
ToSet(s) == {s[i] : i \in 1..Len(s)}

WalkDone == pc \in {"metadata", "resolve", "done"}

VisitOf(d) == visits[CHOOSE i \in 1..Len(visits) : visits[i].path = d]

Visited(d) == \E i \in 1..Len(visits) : visits[i].path = d

\* The tags _index_file made for a path, and the tags the metadata pass made.
WalkTags(path) == SelectSeq(tags, LAMBDA t : t.file = path /\ t.dtype # "None")

MetadataTags(path) == SelectSeq(tags, LAMBDA t : t.file = path /\ t.dtype = "None")

WalkEnts(path) ==
    LET mine == WalkTags(path)
    IN FileEnts([i \in 1..Len(mine) |-> <<mine[i].entity.name, mine[i].value>>])

SuffixOf(path) ==
    LET mine == WalkTags(path)
    IN GetOrNone([i \in 1..Len(mine) |-> <<mine[i].entity.name, mine[i].value>>], "suffix")

\* The indexed JSON sidecars that apply to a file: same suffix, in the
\* file's directory or an ancestor, entities a sub-map of the file's.
MatchingSidecars(path) ==
    {x \in ToSet(file_data) :
        /\ x.key = <<"json", SuffixOf(path)[2]>>
        /\ IsPrefix(x.dirname, Dirname(path))
        /\ \A kv \in ToSet(x.ents) : kv \in ToSet(WalkEnts(path))}

Defining(path, k) == {x \in MatchingSidecars(path) : k \in Keys(x.payload)}

Nearest(S) == {x \in S : \A y \in S : Len(y.dirname) <= Len(x.dirname)}

\* A file the metadata pass has resolved: not JSON, with suffix and extension.
Resolved(bf) ==
    /\ pc \in {"resolve", "done"}
    /\ bf \in ToSet(files) /\ bf \notin ToSet(todo)
    /\ ~EndsWithJson(bf)
    /\ \E x \in ToSet(file_data) : x.path = bf.path

\* C1: sidecar precedence.  Every metadata tag of a file carries, for its
\* key, the value of a matching sidecar in the nearest directory among the
\* matching sidecars that define the key; and every key a matching sidecar
\* defines, however far, has exactly one metadata tag on a resolved file.
C1_SidecarPrecedence ==
    /\ \A i \in 1..Len(tags) :
          tags[i].dtype = "None" =>
             LET k == tags[i].entity.name
                 near == Nearest(Defining(tags[i].file, k))
             IN /\ near # {}
                /\ tags[i].value \in {Get(x.payload, k) : x \in near}
    /\ \A bf \in ToSet(files) :
          Resolved(bf) =>
             \A x \in MatchingSidecars(bf.path) : \A k \in Keys(x.payload) :
                Len(SelectSeq(MetadataTags(bf.path), LAMBDA t : t.entity.name = k)) = 1

\* C1 witness: a file of directory a holds kb from the sidecar of a, which
\* differs from the root sidecar's kb, and ka from the root sidecar alone.
C1_Witness ==
    LET md == ToSet(MetadataTags(SubFile(DirA, 2).path))
    IN /\ \E t \in md : t.entity.name = "kb" /\ t.value = IntVal(2)
       /\ \E t \in md : t.entity.name = "ka" /\ t.value = IntVal(1)
       /\ Get(Payload0, "kb") = IntVal(1)

\* C2: tag uniqueness.  The store holds at most one Tag per (File, Entity).
C2_TagUnique ==
    \A i, j \in 1..Len(tags) :
        (tags[i].file = tags[j].file /\ tags[i].entity = tags[j].entity) => i = j

\* C3: entity name uniqueness.  No two Entity records share a name.
C3_EntityNameUnique ==
    \A i, j \in 1..Len(entities) : entities[i].name = entities[j].name => i = j

\* C4: forced indexing of files.  After a directory visit entered with
\* force_index true, every non-config file of the directory has a File
\* record, valid or not.
C4_ForcedFilesIndexed ==
    WalkDone =>
       \A i \in 1..Len(visits) :
          visits[i].force_index =>
             \A f \in ToSet(BaseFiles(visits[i].path)) : f \in ToSet(files)

\* C5: derivatives exclusion.  The directory derivatives under the root is
\* never visited and no file below it gets a File record.
C5_DerivativesExcluded ==
    /\ \A i \in 1..Len(visits) : ~IsPrefix(DirDeriv, visits[i].path)
    /\ \A bf \in ToSet(files) : ~IsPrefix(DirDeriv, bf.dirname)

\* C5 witness: the walk is over, the directory matched a force-index
\* pattern, is valid, and force_index was passed as true.
C5_Witness ==
    /\ WalkDone
    /\ DirDeriv \in layout.force_index
    /\ DirDeriv \notin layout.invalid_dirs
    /\ args.force_index
    /\ Visited(DirB)

\* The first position of a mandatory entity that does not match the file.
FirstMiss(bf, ents) ==
    LET miss == {i \in 1..Len(ents) : ents[i].mandatory /\ MatchFile(ents[i], bf) = None}
    IN IF miss = {} THEN Len(ents) + 1
       ELSE CHOOSE i \in miss : \A j \in miss : i <= j

\* A file of a visited directory that the loop over filenames has passed.
Passed(f) ==
    /\ Visited(f.dirname)
    /\ \A i \in 1..Len(stack) :
          (stack[i].path = f.dirname /\ stack[i].at = "files") =>
             f \notin ToSet(stack[i].filenames)

\* C6: early stop on a missing mandatory entity.  The filename tags of an
\* indexed file are exactly those of the entities that match and come
\* before the first mandatory entity that does not match; a file that
\* passes the validity guard has its File record whatever its tags.
C6_EarlyStop ==
    /\ \A bf \in ToSet(files) :
          LET ents == VisitOf(bf.dirname).config_entities
              cut == FirstMiss(bf, ents)
              expected == {FileTag(bf, ents[i], MatchFile(ents[i], bf)) :
                             i \in {j \in 1..(cut - 1) : MatchFile(ents[j], bf) # None}}
          IN /\ ToSet(WalkTags(bf.path)) = expected
             /\ Len(WalkTags(bf.path)) = Cardinality(expected)
    /\ \A f \in AllFiles :
          (Passed(f) /\ ValidateFile(f)) => Len(SelectSeq(files, LAMBDA x : x = f)) = 1

\* C6 witness: an indexed file with a mandatory entity that does not match,
\* a matching entity before it and one after it.
C6_Witness ==
    \E bf \in ToSet(files) :
       LET ents == VisitOf(bf.dirname).config_entities
           cut == FirstMiss(bf, ents)
       IN /\ cut <= Len(ents)
          /\ \E i \in 1..(cut - 1) : MatchFile(ents[i], bf) # None
          /\ \E i \in (cut + 1)..Len(ents) : MatchFile(ents[i], bf) # None
          /\ WalkTags(bf.path) # <<>>
          /\ \E other \in ToSet(files) :
                /\ WalkTags(other.path) = <<>>
                /\ FirstMiss(other, VisitOf(other.dirname).config_entities) = 1

RootNames == {e.name : e \in ToSet(ConfigEntities(layout.config))}

\* C7: config layering.  The entity set of a directory visit is the root
\* configs' entities plus those of the config files on the path from the
\* root to the directory; an entity of a subdirectory's config tags only
\* files of its subtree.
C7_ConfigLayering ==
    /\ \A i \in 1..Len(visits) :
          visits[i].entity_names =
             RootNames \cup {fs.configs[d] : d \in {c \in DOMAIN fs.configs :
                                                      IsPrefix(c, visits[i].path)}}
    /\ \A i \in 1..Len(tags) :
          (tags[i].dtype # "None" /\ tags[i].entity.name \notin RootNames) =>
             \E d \in DOMAIN fs.configs :
                /\ fs.configs[d] = tags[i].entity.name
                /\ IsPrefix(d, Dirname(tags[i].file))

\* C7 witness: directory a has a config file; a, its subdirectory c and its
\* sibling b were all visited, b after a.
C7_Witness ==
    /\ WalkDone
    /\ DirA \in DOMAIN fs.configs
    /\ Visited(DirAC) /\ Visited(DirB)
    /\ "foo" \in VisitOf(DirAC).entity_names
    /\ "foo" \notin VisitOf(DirB).entity_names
    /\ fs.order = "fwd"

\* C8: the force flag is scoped per subdirectory.  A visit is entered with
\* force_index true only if its directory matches a force-index pattern or
\* its parent's visit was entered with force_index true.
C8_ForceScoped ==
    \A i \in 1..Len(visits) :
       (visits[i].path # Root /\ visits[i].force_index) =>
          \/ CheckPathMatchesPatterns(visits[i].path, layout.force_index)
          \/ VisitOf(Dirname(visits[i].path)).force_index

ChildEdges == {a \in ToSet(associations) : a.kind = "Child"}

ParentEdges == {a \in ToSet(associations) : a.kind = "Parent"}

StrictPrefix(a, d) == IsPrefix(a, d) /\ a # d

ParentsMirrorChildren ==
    /\ \A a \in ParentEdges : Assoc(a.dst, a.src, "Child") \in ChildEdges
    /\ \A a \in ChildEdges : Assoc(a.dst, a.src, "Parent") \in ParentEdges

C10_AssocUnique ==
    \A i, j \in 1..Len(associations) : associations[i] = associations[j] => i = j

====
